---- MODULE Spec2Model ----
(***************************************************************************)
(* A model of ci/build_test.py (is_supported_platform, is_supported_python,*)
(* install_requirements) of cx_Freeze.                                     *)
(*                                                                         *)
(* Text is modelled as a sequence of symbols.  A symbol is a piece of text *)
(* that no operation of the program cuts: a word ("foo"), a flag           *)
(* ("--no-deps"), a separator (" ", ",", "=", "!", "_", "-").  Splitting,  *)
(* prefix tests, lower-casing and replacement are computed on these        *)
(* sequences as the program computes them on characters.                   *)
(*                                                                         *)
(* An optional value (None or a value) is a sequence of length 0 or 1.     *)
(***************************************************************************)
EXTENDS Integers, Sequences, FiniteSets, TLC

-----------------------------------------------------------------------------
(* Bounds of the model *)

\* the longest platform constraint, in symbols, given to is_supported_platform
MaxLen == 4
\* the largest number of requirement lines in one call
MaxReqs == 2
\* the largest number of extra index URLs in one call
MaxUrls == 1
\* the largest number of tokens of a requirement line given to the parser alone
MaxTokens == 3
\* the longest package name, in symbols, candidate names are made for
MaxName == 3
\* the longest python-version specifier, in symbols, given to the filter alone
MaxSpec == 3
\* the longest version, in symbols, a VersionInfo is made of
MaxVersion == 4

-----------------------------------------------------------------------------
(* Text *)

None == <<>>
Some(x) == <<x>>

Range(s) == {s[n] : n \in 1..Len(s)}

\* str.startswith(prefix), for a prefix that is one symbol
StartsWith(s, prefix) == Len(s) > 0 /\ s[1] = prefix

\* the position of the first sep in s, 0 when there is none
FirstIndex(s, sep) ==
    IF \E n \in 1..Len(s) : s[n] = sep
    THEN CHOOSE n \in 1..Len(s) : s[n] = sep /\ \A m \in 1..(n - 1) : s[m] # sep
    ELSE 0

RECURSIVE Split(_, _)
\* str.split(sep): the pieces between the separators; "" gives [""]
Split(s, sep) ==
    LET n == FirstIndex(s, sep)
    IN IF n = 0
       THEN <<s>>
       ELSE <<SubSeq(s, 1, n - 1)>> \o Split(SubSeq(s, n + 1, Len(s)), sep)

\* str.replace(old, new) for one-symbol old and new
Replace(s, old, new) == [n \in 1..Len(s) |-> IF s[n] = old THEN new ELSE s[n]]

\* the symbols that hold an upper-case letter, and their lower-case form
UpperSymbols == {"Pillow", "My", "Package"}
LowerSymbol(sym) ==
    CASE sym = "Pillow" -> "pillow"
      [] sym = "My" -> "my"
      [] sym = "Package" -> "package"
      [] OTHER -> sym
\* the symbols that hold no letter at all
UncasedSymbols == {" ", ",", "=", "!", "_", "-", "/", "==1.0", ">=", "<", "3.9", "3.13", "'"}

\* str.lower()
Lower(s) == [n \in 1..Len(s) |-> LowerSymbol(s[n])]
\* str.islower(): some cased character, and no upper-case one
IsLower(s) ==
    /\ \A n \in 1..Len(s) : s[n] \notin UpperSymbols
    /\ \E n \in 1..Len(s) : s[n] \notin UncasedSymbols

RECURSIVE Flatten(_)
\* the concatenation of a sequence of sequences
Flatten(ss) == IF ss = <<>> THEN <<>> ELSE Head(ss) \o Flatten(Tail(ss))

-----------------------------------------------------------------------------
(* State *)

VARIABLES
    \* the environment, read once when the module is imported
    PLATFORM,           \* sysconfig.get_platform()
    IS_CONDA,           \* <sys.prefix>/conda-meta is a directory
    IS_FINAL_VERSION,   \* sys.version_info.releaselevel == "final"
    PIP_UPGRADE,        \* the environment variable PIP_UPGRADE is set
    packaging,          \* the package "packaging" can be imported
    os_environ,         \* the pre-release toggles of the process environment
    \* the arguments of install_requirements
    requires,           \* the list of requirement lines, as given
    extra_index_url,    \* the list of extra index URLs (<<>>: none)
    \* the locals of install_requirements
    todo,               \* the lines of set(requires) the loop has yet to yield
    done,               \* the lines the loop has yielded, in that order
    d,                  \* the directive parsed from the current line
    pc,                 \* where the call is
    url,                \* conda: the index of the extra index URL searched
    args,               \* conda: the URL of the matching build, if any
    packages,           \* pacman: the candidate names of the directive
    cand,               \* pacman: the index of the candidate at hand
    installed_packages, \* the outcome list
    conda_pkgs,         \* the requirements queued for the batched conda install
    pip_pkgs,           \* the requirements queued for the batched pip install
    \* what the package managers saw
    cmds,               \* the commands run for the current line, in order
    batches,            \* the batched commands run after the loop, in order
    installed_from,     \* for each entry of installed_packages, the line it is from
    conda_from,         \* for each entry of conda_pkgs, the line it is from
    pip_from,           \* for each entry of pip_pkgs, the line it is from
    \* one call of is_supported_platform: its arguments and its result
    call

env_vars == <<PLATFORM, IS_CONDA, IS_FINAL_VERSION, PIP_UPGRADE, packaging,
              os_environ, requires, extra_index_url>>
loop_vars == <<todo, done, d, url, args, packages, cand>>
out_vars == <<installed_packages, conda_pkgs, pip_pkgs, installed_from,
              conda_from, pip_from>>
vars == <<env_vars, loop_vars, out_vars, pc, cmds, batches, call>>

-----------------------------------------------------------------------------
(* The environment *)

IS_LINUX == StartsWith(PLATFORM, "linux")
IS_MACOS == StartsWith(PLATFORM, "macos")
IS_MINGW == StartsWith(PLATFORM, "mingw")
IS_WINDOWS == StartsWith(PLATFORM, "win")
PYTHON_VERSION == "3.12"
MINGW_PACKAGE_PREFIX == "mingw-w64-ucrt-x86_64"

\* what sysconfig.get_platform() gives on the four families of platforms
Platforms ==
    { <<"linux", "-", "x86_64">>, <<"macos", "x", "-", "11.0", "-", "arm64">>,
      <<"mingw", "_", "x86_64", "_", "ucrt">>, <<"win", "-", "amd64">> }

-----------------------------------------------------------------------------
(* is_supported_platform *)

\* the values of the parameter platform: str | list[str] | None
PyStr(s) == [type |-> "str", value |-> s]
PyList(l) == [type |-> "list", value |-> l]
PyNone == [type |-> "None", value |-> <<>>]

PlatformTags == {<<"linux">>, <<"macos">>, <<"mingw">>, <<"windows">>}

\* the platform in use when the caller gives none
platform_in_use_default ==
    IF IS_MACOS THEN <<"macos">>
    ELSE IF IS_MINGW THEN <<"mingw">>
    ELSE IF IS_WINDOWS THEN <<"windows">>
    ELSE <<"linux">>

\* is_supported_platform, were the exclusions dropped when tags are included
is_supported_platform_no_exclusion(platform, platform_in_use) ==
    LET plist == IF platform.type = "str"
                 THEN Split(platform.value, ",")
                 ELSE platform.value
        in_use == IF platform_in_use = None
                  THEN platform_in_use_default
                  ELSE platform_in_use[1]
        platform_yes == {plist[n] : n \in {m \in 1..Len(plist) : ~StartsWith(plist[m], "!")}}
        platform_not == {Tail(plist[n]) : n \in {m \in 1..Len(plist) : StartsWith(plist[m], "!")}}
        platform_support == IF platform_yes # {}
                            THEN platform_yes
                            ELSE PlatformTags \ platform_not
    IN IF Len(plist) = 0
       THEN TRUE
       ELSE in_use \in platform_support

\* platform: a Py value; platform_in_use: None or Some(tag)
is_supported_platform(platform, platform_in_use) ==
    LET plist == IF platform.type = "str"
                 THEN Split(platform.value, ",")
                 ELSE platform.value
        in_use == IF platform_in_use = None
                  THEN platform_in_use_default
                  ELSE platform_in_use[1]
        platform_yes == {plist[n] : n \in {m \in 1..Len(plist) : ~StartsWith(plist[m], "!")}}
        platform_not == {Tail(plist[n]) : n \in {m \in 1..Len(plist) : StartsWith(plist[m], "!")}}
        platform_all == IF platform_yes # {} THEN platform_yes ELSE PlatformTags
        platform_support == IF platform_not # {}
                            THEN platform_all \ platform_not
                            ELSE platform_all
    IN IF Len(plist) = 0
       THEN TRUE
       ELSE in_use \in platform_support

-----------------------------------------------------------------------------
(* is_supported_python *)

\* packaging.specifiers.SpecifierSet: the specifiers it accepts ...
VersionNumber == [v \in {"3.9", "3.12", "3.13"} |->
                    CASE v = "3.9" -> 9 [] v = "3.12" -> 12 [] v = "3.13" -> 13]
ValidSpecifier(spec) ==
    \/ spec = <<>>
    \/ /\ Len(spec) = 2
       /\ spec[1] \in {">=", "<"}
       /\ spec[2] \in {"3.9", "3.13"}
\* ... and the versions in one of them
InSpecifierSet(version, spec) ==
    IF spec = <<>> THEN TRUE
    ELSE IF spec[1] = ">=" THEN VersionNumber[version] >= VersionNumber[spec[2]]
    ELSE VersionNumber[version] < VersionNumber[spec[2]]

\* is_supported_python, were it to fail closed without packaging
is_supported_python_failing_closed(python_version) ==
    LET spec == SelectSeq(python_version, LAMBDA sym : sym # "'")
    IN IF ~packaging
       THEN [raised |-> FALSE, value |-> FALSE]
       ELSE IF ~ValidSpecifier(spec)
       THEN [raised |-> TRUE, value |-> FALSE]
       ELSE [raised |-> FALSE, value |-> InSpecifierSet(PYTHON_VERSION, spec)]

\* [raised |-> an exception left the function, value |-> what it returned]
is_supported_python(python_version) ==
    LET spec == SelectSeq(python_version, LAMBDA sym : sym # "'")
    IN IF ~packaging
       THEN [raised |-> FALSE, value |-> TRUE]
       ELSE IF ~ValidSpecifier(spec)
       THEN [raised |-> TRUE, value |-> FALSE]
       ELSE [raised |-> FALSE, value |-> InSpecifierSet(PYTHON_VERSION, spec)]

-----------------------------------------------------------------------------
(* Requirement: packaging.requirements.Requirement, or the stand-in class *)

\* the symbols a package name is made of
NameSymbols == {"foo", "bar", "baz", "qux", "cfoo", "mfoo", "pillow", "my",
                "package", "python", "bogus", "_", "-"} \cup UpperSymbols
VersionSpecifiers == {<<"==1.0">>}

RECURSIVE NameLength(_)
\* the length of the longest prefix of req made of name symbols
NameLength(req) ==
    IF req # <<>> /\ Head(req) \in NameSymbols
    THEN 1 + NameLength(Tail(req))
    ELSE 0

\* what packaging parses: a name that starts and ends with a letter or digit,
\* then an optional version specifier
ValidRequirement(req) ==
    LET n == NameLength(req)
    IN /\ n > 0
       /\ req[1] \notin {"_", "-"}
       /\ req[n] \notin {"_", "-"}
       /\ SubSeq(req, n + 1, Len(req)) \in {<<>>} \cup VersionSpecifiers

\* [raised |-> the constructor raised, name |-> .name, str |-> str(...)]
Requirement(req) ==
    IF ~packaging
    THEN [raised |-> FALSE, name |-> req, str |-> req]
    ELSE IF ValidRequirement(req)
    THEN [raised |-> FALSE, name |-> SubSeq(req, 1, NameLength(req)), str |-> req]
    ELSE [raised |-> TRUE, name |-> <<>>, str |-> <<>>]

-----------------------------------------------------------------------------
(* install_requirements: parsing one requirement line *)

\* the locals as the loop body sets them before it reads the line
NewDirective ==
    [ alias_for_conda |-> None, alias_for_mingw |-> None, no_deps |-> FALSE,
      platform |-> None, python_version |-> None, only_binary |-> FALSE,
      pre_release |-> FALSE, prefer_binary |-> FALSE, require |-> None,
      upgrade |-> PIP_UPGRADE, raised |-> FALSE ]

\* ParseToken, were the flags set anew when the requirement is read
ParseTokenResetting(dir, req_data) ==
    IF dir.raised THEN dir
    ELSE IF StartsWith(req_data, "--conda=")
    THEN [dir EXCEPT !.alias_for_conda = Some(Tail(req_data))]
    ELSE IF StartsWith(req_data, "--mingw=")
    THEN [dir EXCEPT !.alias_for_mingw = Some(Tail(req_data))]
    ELSE IF req_data = <<"--no-deps">>
    THEN [dir EXCEPT !.no_deps = TRUE]
    ELSE IF StartsWith(req_data, "--platform=")
    THEN [dir EXCEPT !.platform = Some(Split(Tail(req_data), "=")[1])]
    ELSE IF StartsWith(req_data, "--python-version")
    THEN [dir EXCEPT !.python_version = Some(Tail(req_data))]
    ELSE IF req_data = <<"--only-binary">>
    THEN [dir EXCEPT !.only_binary = TRUE]
    ELSE IF req_data = <<"--pre">>
    THEN [dir EXCEPT !.pre_release = TRUE]
    ELSE IF req_data = <<"--prefer-binary">>
    THEN [dir EXCEPT !.prefer_binary = TRUE]
    ELSE IF req_data = <<"--upgrade">>
    THEN [dir EXCEPT !.upgrade = TRUE]
    ELSE IF req_data # <<>>
    THEN LET r == Requirement(req_data)
         IN IF r.raised
            THEN [dir EXCEPT !.raised = TRUE]
            ELSE [dir EXCEPT !.require = Some([name |-> r.name, str |-> r.str]),
                             !.no_deps = FALSE, !.only_binary = FALSE,
                             !.pre_release = FALSE, !.prefer_binary = FALSE,
                             !.upgrade = PIP_UPGRADE]
    ELSE dir

\* ParseToken, were a requirement kept once it is read
ParseTokenFirstWins(dir, req_data) ==
    IF dir.raised THEN dir
    ELSE IF StartsWith(req_data, "--conda=")
    THEN [dir EXCEPT !.alias_for_conda = Some(Tail(req_data))]
    ELSE IF StartsWith(req_data, "--mingw=")
    THEN [dir EXCEPT !.alias_for_mingw = Some(Tail(req_data))]
    ELSE IF req_data = <<"--no-deps">>
    THEN [dir EXCEPT !.no_deps = TRUE]
    ELSE IF StartsWith(req_data, "--platform=")
    THEN [dir EXCEPT !.platform = Some(Split(Tail(req_data), "=")[1])]
    ELSE IF StartsWith(req_data, "--python-version")
    THEN [dir EXCEPT !.python_version = Some(Tail(req_data))]
    ELSE IF req_data = <<"--only-binary">>
    THEN [dir EXCEPT !.only_binary = TRUE]
    ELSE IF req_data = <<"--pre">>
    THEN [dir EXCEPT !.pre_release = TRUE]
    ELSE IF req_data = <<"--prefer-binary">>
    THEN [dir EXCEPT !.prefer_binary = TRUE]
    ELSE IF req_data = <<"--upgrade">>
    THEN [dir EXCEPT !.upgrade = TRUE]
    ELSE IF req_data # <<>>
    THEN LET r == Requirement(req_data)
         IN IF r.raised
            THEN [dir EXCEPT !.raised = TRUE]
            ELSE IF dir.require # None THEN dir
            ELSE [dir EXCEPT !.require = Some([name |-> r.name, str |-> r.str])]
    ELSE dir

\* one turn of the loop over req.split(" ")
ParseToken(dir, req_data) ==
    IF dir.raised THEN dir
    ELSE IF StartsWith(req_data, "--conda=")
    THEN [dir EXCEPT !.alias_for_conda = Some(Tail(req_data))]
    ELSE IF StartsWith(req_data, "--mingw=")
    THEN [dir EXCEPT !.alias_for_mingw = Some(Tail(req_data))]
    ELSE IF req_data = <<"--no-deps">>
    THEN [dir EXCEPT !.no_deps = TRUE]
    ELSE IF StartsWith(req_data, "--platform=")
    THEN [dir EXCEPT !.platform = Some(Split(Tail(req_data), "=")[1])]
    ELSE IF StartsWith(req_data, "--python-version")
    THEN [dir EXCEPT !.python_version = Some(Tail(req_data))]
    ELSE IF req_data = <<"--only-binary">>
    THEN [dir EXCEPT !.only_binary = TRUE]
    ELSE IF req_data = <<"--pre">>
    THEN [dir EXCEPT !.pre_release = TRUE]
    ELSE IF req_data = <<"--prefer-binary">>
    THEN [dir EXCEPT !.prefer_binary = TRUE]
    ELSE IF req_data = <<"--upgrade">>
    THEN [dir EXCEPT !.upgrade = TRUE]
    ELSE IF req_data # <<>>
    THEN LET r == Requirement(req_data)
         IN IF r.raised
            THEN [dir EXCEPT !.raised = TRUE]
            ELSE [dir EXCEPT !.require = Some([name |-> r.name, str |-> r.str])]
    ELSE dir

RECURSIVE ParseTokens(_, _)
ParseTokens(dir, tokens) ==
    IF tokens = <<>>
    THEN dir
    ELSE ParseTokens(ParseToken(dir, Head(tokens)), Tail(tokens))

\* the directive of the line req
Parse(req) == ParseTokens(NewDirective, Split(req, " "))

\* Supported, were the platform not looked at
SupportedOnAnyPlatform(dir) ==
    IF dir.python_version # None /\ dir.python_version[1] # <<>>
    THEN is_supported_python(dir.python_version[1])
    ELSE [raised |-> FALSE, value |-> TRUE]

\* the lines 175-178: the directive is for this platform and this interpreter.
\* [raised |-> an exception left the filter, value |-> the directive passes]
Supported(dir) ==
    IF ~is_supported_platform(IF dir.platform = None THEN PyNone
                              ELSE PyStr(dir.platform[1]), None)
    THEN [raised |-> FALSE, value |-> FALSE]
    ELSE IF dir.python_version # None /\ dir.python_version[1] # <<>>
    THEN is_supported_python(dir.python_version[1])
    ELSE [raised |-> FALSE, value |-> TRUE]

-----------------------------------------------------------------------------
(* install_requirements: the candidate names of a package in MSYS2 *)

LowerVariants(package, names) ==
    IF ~IsLower(package)
    THEN names \o [n \in 1..Len(names) |-> Lower(names[n])]
    ELSE names

\* SeparatorVariants, were only the two names of the line 237 given a variant
SeparatorVariantsOfFirstTwo(package, names) ==
    IF "_" \in Range(package)
    THEN names \o [n \in 1..2 |-> Replace(names[n], "_", "-")]
    ELSE IF "-" \in Range(package)
    THEN names \o [n \in 1..2 |-> Replace(names[n], "-", "_")]
    ELSE names

SeparatorVariants(package, names) ==
    IF "_" \in Range(package)
    THEN names \o [n \in 1..Len(names) |-> Replace(names[n], "_", "-")]
    ELSE IF "-" \in Range(package)
    THEN names \o [n \in 1..Len(names) |-> Replace(names[n], "-", "_")]
    ELSE names

\* the list packages of the lines 236-251
Candidates(package) ==
    SeparatorVariants(package,
        LowerVariants(package, << <<"python", "-">> \o package, package >>))

\* the name pacman is given for a candidate
MingwPackage(package_name) == <<MINGW_PACKAGE_PREFIX, "-">> \o package_name

-----------------------------------------------------------------------------
(* install_requirements: the state of a call, and the commands it runs *)

\* the locals of the call and what the package managers saw, as one record
State ==
    [ pc |-> pc, todo |-> todo, done |-> done, d |-> d, url |-> url,
      args |-> args, packages |-> packages, cand |-> cand,
      installed_packages |-> installed_packages, conda_pkgs |-> conda_pkgs,
      pip_pkgs |-> pip_pkgs, cmds |-> cmds, batches |-> batches,
      installed_from |-> installed_from, conda_from |-> conda_from,
      pip_from |-> pip_from ]

\* the call goes to the state s
Become(s) ==
    /\ pc' = s.pc
    /\ todo' = s.todo
    /\ done' = s.done
    /\ d' = s.d
    /\ url' = s.url
    /\ args' = s.args
    /\ packages' = s.packages
    /\ cand' = s.cand
    /\ installed_packages' = s.installed_packages
    /\ conda_pkgs' = s.conda_pkgs
    /\ pip_pkgs' = s.pip_pkgs
    /\ cmds' = s.cmds
    /\ batches' = s.batches
    /\ installed_from' = s.installed_from
    /\ conda_from' = s.conda_from
    /\ pip_from' = s.pip_from
    /\ UNCHANGED <<env_vars, call>>

\* the line at hand
Line(s) == s.done[Len(s.done)]

\* subprocess.run(...): a command, before it returns
Command(prog, verb, options, pkgs, environ) ==
    [ prog |-> prog, verb |-> verb, options |-> options, pkgs |-> pkgs,
      env |-> environ, returned |-> FALSE, returncode |-> 0, stdout |-> "" ]

\* the command at hand has returned
Returned(log, returncode, stdout) ==
    [log EXCEPT ![Len(log)] =
        [@ EXCEPT !.returned = TRUE, !.returncode = returncode, !.stdout = stdout]]

\* continue: the loop goes to its next turn
Continue(s) == [s EXCEPT !.pc = "loop"]

\* an exception leaves install_requirements
Raise(s) == [s EXCEPT !.pc = "raised"]

\* Record, were the packages put at the head of the outcome list
RecordAtHead(s, pkgs, from) ==
    [s EXCEPT !.installed_packages = pkgs \o @, !.installed_from = from \o @]

\* installed_packages.append / extend, for packages of the lines from
Record(s, pkgs, from) ==
    [s EXCEPT !.installed_packages = @ \o pkgs, !.installed_from = @ \o from]

\* WithAlias, were an empty alias taken for no alias
WithAliasUnlessEmpty(dir, alias) ==
    IF alias # None /\ alias[1] # <<>>
    THEN LET r == Requirement(alias[1])
         IN [ skip |-> FALSE, raised |-> r.raised,
              d |-> [dir EXCEPT !.require = Some([name |-> r.name, str |-> r.str])] ]
    ELSE [skip |-> dir.require = None, raised |-> FALSE, d |-> dir]

\* the lines 182-187 and 230-235: the alias takes the place of the requirement.
\* [skip |-> the directive is left out, raised |-> Requirement raised, d |-> ...]
WithAlias(dir, alias) ==
    IF alias # None
    THEN IF alias[1] = <<>>
         THEN [skip |-> TRUE, raised |-> FALSE, d |-> dir]
         ELSE LET r == Requirement(alias[1])
              IN [ skip |-> FALSE, raised |-> r.raised,
                   d |-> [dir EXCEPT !.require = Some([name |-> r.name, str |-> r.str])] ]
    ELSE [skip |-> dir.require = None, raised |-> FALSE, d |-> dir]

-----------------------------------------------------------------------------
(* install_requirements: pip / uv *)

PipOptions(dir) ==
    (IF dir.no_deps THEN << <<"--no-deps">> >> ELSE <<>>)
    \o (IF dir.only_binary
        THEN << <<"--only-binary=">> \o dir.require[1].name >>
        ELSE <<>>)
    \o (IF dir.prefer_binary THEN << <<"--prefer-binary">> >> ELSE <<>>)
    \o (IF dir.upgrade THEN << <<"--upgrade">> >> ELSE <<>>)

ExtraIndexUrlOptions ==
    [n \in 1..Len(extra_index_url) |-> <<"--extra-index-url=">> \o extra_index_url[n]]

\* env = os.environ.copy(); env["UV_PYTHON"] = sys.executable
EnvCopy == [os_environ EXCEPT !.UV_PYTHON = Some("sys.executable")]

\* PipEnv, were env the process environment itself and not a copy of it: the
\* toggles an earlier directive set are still there
PipEnvShared(dir) ==
    IF dir.pre_release \/ \E n \in 1..Len(done) : Parse(done[n]).pre_release
    THEN [EnvCopy EXCEPT !.PIP_PRE = Some("1"), !.UV_PRERELEASE = Some("explicit")]
    ELSE EnvCopy

\* the lines 296-298
PipEnv(dir) ==
    IF dir.pre_release
    THEN [EnvCopy EXCEPT !.PIP_PRE = Some("1"), !.UV_PRERELEASE = Some("explicit")]
    ELSE EnvCopy

\* RetryEnv, were the retry to ask for explicit pre-releases only
RetryEnvExplicit(environ) ==
    [environ EXCEPT !.PIP_PRE = Some("1"), !.UV_PRERELEASE = Some("explicit")]

\* the lines 316-317
RetryEnv(environ) ==
    [environ EXCEPT !.PIP_PRE = Some("1"), !.UV_PRERELEASE = Some("allow")]

\* the line 303: the directive is installed by a command of its own
Individually(dir) == PipOptions(dir) # <<>>

\* the lines 272-310 and 322-323, from "use pip" to the first command
PipStart(s) ==
    IF s.d.require = None
    THEN Continue(s)
    ELSE IF Individually(s.d)
    THEN [s EXCEPT
            !.pc = "pip_install",
            !.cmds = Append(@, Command("pip", "install",
                                PipOptions(s.d) \o ExtraIndexUrlOptions,
                                <<s.d.require[1].str>>, PipEnv(s.d)))]
    ELSE [s EXCEPT
            !.pc = "loop",
            !.pip_pkgs = Append(@, s.d.require[1].str),
            !.pip_from = Append(@, Line(s))]

\* RetryDue, were --pre not looked at
RetryDueWithPre(dir) == ~IS_FINAL_VERSION

\* the retry of the lines 314-318 is due
RetryDue(dir) == ~IS_FINAL_VERSION /\ ~dir.pre_release

\* the lines 311-321: the first command of a directive has returned
PipInstalled(s, returncode) ==
    LET t == [s EXCEPT !.cmds = Returned(@, returncode, "")]
    IN IF returncode = 0
       THEN Continue(Record(t, <<s.d.require[1].name>>, <<Line(s)>>))
       ELSE IF RetryDue(s.d)
       THEN [t EXCEPT
               !.pc = "pip_retry",
               !.cmds = Append(@, LET first == s.cmds[Len(s.cmds)]
                                  IN Command("pip", "install", first.options,
                                             first.pkgs, RetryEnv(first.env)))]
       ELSE Continue(t)

\* PipRetried, were a failed retry run again
PipRetriedAgain(s, returncode) ==
    LET t == [s EXCEPT !.cmds = Returned(@, returncode, "")]
    IN IF returncode = 0
       THEN Continue(Record(t, <<s.d.require[1].name>>, <<Line(s)>>))
       ELSE [t EXCEPT
               !.cmds = Append(@, LET first == s.cmds[Len(s.cmds)]
                                  IN Command("pip", "install", first.options,
                                             first.pkgs, first.env))]

\* the lines 319-321: the retry has returned
PipRetried(s, returncode) ==
    LET t == [s EXCEPT !.cmds = Returned(@, returncode, "")]
    IN IF returncode = 0
       THEN Continue(Record(t, <<s.d.require[1].name>>, <<Line(s)>>))
       ELSE Continue(t)

-----------------------------------------------------------------------------
(* install_requirements: conda *)

\* packages_url = extra[:-1] if extra[-1] == "/" else extra
PackagesUrl(extra) ==
    IF extra[Len(extra)] = "/" THEN SubSeq(extra, 1, Len(extra) - 1) ELSE extra

\* file["url"] of a build the search of the n-th URL reports
FileUrl(n, name) ==
    PackagesUrl(extra_index_url[n]) \o <<"/", "conda", "/">> \o name \o <<".conda">>

\* the lines 189-219, from the n-th extra index URL on, up to the next command
CondaNext(s, n) ==
    IF n <= Len(extra_index_url)
    THEN [s EXCEPT
            !.pc = "conda_search",
            !.url = n,
            !.cmds = Append(@, Command("conda", "search",
                        << <<"--override-channels">>, <<"-c">>,
                           PackagesUrl(extra_index_url[n]) \o <<"/", "conda">>,
                           <<"--json">> >>,
                        <<s.d.require[1].name>>, os_environ))]
    ELSE IF s.args # None
    THEN [s EXCEPT
            !.pc = "conda_install",
            !.cmds = Append(@, Command("conda", "install", <<>>, s.args, os_environ))]
    ELSE [s EXCEPT
            !.pc = "loop",
            !.conda_pkgs = Append(@, s.d.require[1].str),
            !.conda_from = Append(@, Line(s))]

\* the lines 180-198, from "minimal support for conda" to the first command
CondaStart(s) ==
    LET w == WithAlias(s.d, s.d.alias_for_conda)
    IN IF w.skip THEN Continue(s)
       ELSE IF w.raised THEN Raise(s)
       ELSE CondaNext([s EXCEPT !.d = w.d, !.args = None], 1)

\* what a conda search writes: a build for this interpreter, builds for others
\* only, or text that is not the JSON the lines 204-210 read
CondaSearchResults ==
    { [returncode |-> 0, stdout |-> "match"], [returncode |-> 0, stdout |-> "other"],
      [returncode |-> 0, stdout |-> "invalid"], [returncode |-> 1, stdout |-> "invalid"] }

\* the lines 203-211: a search has returned
CondaSearched(s, returncode, stdout) ==
    LET t == [s EXCEPT !.cmds = Returned(@, returncode, stdout)]
    IN IF returncode = 0 /\ stdout = "invalid"
       THEN Raise(t)
       ELSE IF returncode = 0 /\ stdout = "match"
       THEN CondaNext([t EXCEPT !.args = <<FileUrl(s.url, s.d.require[1].name)>>],
                      s.url + 1)
       ELSE CondaNext(t, s.url + 1)

\* CondaInstalled, were the exit code of the install not looked at
CondaInstalledWhateverExit(s, returncode) ==
    LET t == [s EXCEPT !.cmds = Returned(@, returncode, "")]
    IN Continue(Record(t, s.args, <<Line(s)>>))

\* the lines 214-217: the install of a build has returned
CondaInstalled(s, returncode) ==
    LET t == [s EXCEPT !.cmds = Returned(@, returncode, "")]
    IN IF returncode = 0
       THEN Continue(Record(t, s.args, <<Line(s)>>))
       ELSE Continue(t)

-----------------------------------------------------------------------------
(* install_requirements: MSYS2 *)

\* the lines 253-257: the probe of the candidate at hand
PacmanSearch(s) ==
    [s EXCEPT
        !.pc = "pacman_search",
        !.cmds = Append(@, Command("pacman", "search", << <<"--noconfirm">>, <<"-Ss">> >>,
                                   <<MingwPackage(s.packages[s.cand])>>, os_environ))]

\* PacmanNext, were the directive dropped after the last candidate
PacmanNextOrDrop(s) ==
    IF s.cand < Len(s.packages)
    THEN PacmanSearch([s EXCEPT !.cand = @ + 1])
    ELSE Continue(s)

\* the loop of the line 252 goes on, and after it the lines 269-271
PacmanNext(s) ==
    IF s.cand < Len(s.packages)
    THEN PacmanSearch([s EXCEPT !.cand = @ + 1])
    ELSE PipStart(s)

\* MingwStart, were an empty alias taken for no alias (if alias_for_mingw:)
MingwStartUnderName(s) ==
    LET w == WithAliasUnlessEmpty(s.d, s.d.alias_for_mingw)
    IN IF w.skip THEN Continue(s)
       ELSE IF w.raised THEN Raise(s)
       ELSE PacmanSearch([s EXCEPT !.d = w.d,
                                   !.packages = Candidates(w.d.require[1].name),
                                   !.cand = 1])

\* the lines 230-257, from the aliases to the first command
MingwStart(s) ==
    LET w == WithAlias(s.d, s.d.alias_for_mingw)
    IN IF w.skip THEN Continue(s)
       ELSE IF w.raised THEN Raise(s)
       ELSE PacmanSearch([s EXCEPT !.d = w.d,
                                   !.packages = Candidates(w.d.require[1].name),
                                   !.cand = 1])

\* what a probe gives: its exit code and whether it wrote "installed"
PacmanSearchResults ==
    { [returncode |-> 0, stdout |-> "installed"], [returncode |-> 0, stdout |-> ""],
      [returncode |-> 1, stdout |-> ""], [returncode |-> 2, stdout |-> "installed"] }

\* PacmanSearched, were every failed probe taken for "not found"
PacmanSearchedSkippingFailures(s, returncode, stdout) ==
    LET t == [s EXCEPT !.cmds = Returned(@, returncode, stdout)]
        package == MingwPackage(s.packages[s.cand])
    IN IF returncode # 0
       THEN PacmanNext(t)
       ELSE IF stdout = "installed"
       THEN Continue(Record(t, <<package>>, <<Line(s)>>))
       ELSE [t EXCEPT
               !.pc = "pacman_install",
               !.cmds = Append(@, Command("pacman", "install",
                                   << <<"--noconfirm">>, <<"--needed">>, <<"-S">> >>,
                                   <<package>>, os_environ))]

\* the lines 258-264: a probe has returned
PacmanSearched(s, returncode, stdout) ==
    LET t == [s EXCEPT !.cmds = Returned(@, returncode, stdout)]
        package == MingwPackage(s.packages[s.cand])
    IN IF returncode = 1
       THEN PacmanNext(t)
       ELSE IF returncode = 0 /\ stdout = "installed"
       THEN Continue(Record(t, <<package>>, <<Line(s)>>))
       ELSE [t EXCEPT
               !.pc = "pacman_install",
               !.cmds = Append(@, Command("pacman", "install",
                                   << <<"--noconfirm">>, <<"--needed">>, <<"-S">> >>,
                                   <<package>>, os_environ))]

\* the lines 265-270: an install has returned
PacmanInstalled(s, returncode) ==
    LET t == [s EXCEPT !.cmds = Returned(@, returncode, "")]
    IN IF returncode = 0
       THEN Continue(Record(t, <<MingwPackage(s.packages[s.cand])>>, <<Line(s)>>))
       ELSE PacmanNext(t)

-----------------------------------------------------------------------------
(* install_requirements: the loop and the batched installs *)

\* Dispatch, were MinGW looked at before the Conda marker
DispatchMingwFirst(s) ==
    IF s.d.raised THEN Raise(s)
    ELSE LET sup == Supported(s.d)
         IN IF sup.raised THEN Raise(s)
            ELSE IF ~sup.value THEN Continue(s)
            ELSE IF IS_MINGW THEN MingwStart(s)
            ELSE IF IS_CONDA THEN CondaStart(s)
            ELSE PipStart(s)

\* the lines 175-220 and 272: where a parsed directive goes
Dispatch(s) ==
    IF s.d.raised THEN Raise(s)
    ELSE LET sup == Supported(s.d)
         IN IF sup.raised THEN Raise(s)
            ELSE IF ~sup.value THEN Continue(s)
            ELSE IF IS_CONDA THEN CondaStart(s)
            ELSE IF IS_MINGW THEN MingwStart(s)
            ELSE PipStart(s)

\* the lines 338-346
CondaBatch(s) ==
    IF s.conda_pkgs # <<>>
    THEN [s EXCEPT
            !.pc = "conda_batch",
            !.batches = Append(@, Command("conda", "install",
                            << <<"--override-channels">>, <<"-c">>, <<"conda-forge">> >>,
                            s.conda_pkgs, os_environ))]
    ELSE [s EXCEPT !.pc = "done"]

\* the lines 324-335
PipBatch(s) ==
    IF s.pip_pkgs # <<>>
    THEN [s EXCEPT
            !.pc = "pip_batch",
            !.batches = Append(@, Command("pip", "install", ExtraIndexUrlOptions,
                                          s.pip_pkgs, EnvCopy))]
    ELSE CondaBatch(s)

\* PipBatched, were a failed batch run again on an interpreter that is no
\* final release, as a failed command of one directive is
PipBatchedRetrying(s, returncode) ==
    LET t == [s EXCEPT !.batches = Returned(@, returncode, "")]
    IN IF returncode = 0
       THEN CondaBatch(Record(t, s.pip_pkgs, s.pip_from))
       ELSE IF ~IS_FINAL_VERSION /\ Len(s.batches) < 2
       THEN [t EXCEPT !.batches = Append(@, Command("pip", "install",
                                  ExtraIndexUrlOptions, s.pip_pkgs, RetryEnv(EnvCopy)))]
       ELSE CondaBatch(t)

\* the lines 336-337
PipBatched(s, returncode) ==
    LET t == [s EXCEPT !.batches = Returned(@, returncode, "")]
    IN IF returncode = 0
       THEN CondaBatch(Record(t, s.pip_pkgs, s.pip_from))
       ELSE CondaBatch(t)

\* the lines 343-346
CondaBatched(s, returncode) ==
    LET t == [s EXCEPT !.batches = Returned(@, returncode, ""), !.pc = "done"]
    IN IF returncode = 0
       THEN Record(t, s.conda_pkgs, s.conda_from)
       ELSE t

-----------------------------------------------------------------------------
(* The calls of install_requirements the model runs *)

\* the requirement lines
Lines ==
    { <<"foo", "==1.0">>,
      <<"bar", " ", "--only-binary">>,
      <<"baz", " ", "--platform=", "!", "windows">>,
      <<"qux", " ", "--pre">>,
      <<"bar", " ", "--pre", " ", "--no-deps">>,
      <<"foo", " ", "--conda=", " ", "--mingw=">>,
      <<"Pillow", " ", "--conda=", "cfoo", " ", "--mingw=", "mfoo">>,
      <<"baz", " ", "--python-version", ">=", "3.13">>,
      <<"--upgrade">>,
      <<"foo", " ", " ", "bar">>,
      <<"foo", ">=">> }

\* the extra index URLs
Urls == { <<"https://example.org/simple", "/">> }

\* the exit codes of an install command
ExitCodes == {0, 1}

\* the sequences of at most n elements of S
SeqUpTo(S, n) == UNION {[1..m -> S] : m \in 0..n}

NoCall == [platform |-> PyNone, platform_in_use |-> None, result |-> None]

\* the state when install_requirements reaches the loop of the line 140
Init ==
    /\ PLATFORM \in Platforms
    /\ IS_CONDA \in BOOLEAN
    /\ IS_FINAL_VERSION \in BOOLEAN
    /\ PIP_UPGRADE \in BOOLEAN
    /\ packaging \in BOOLEAN
    /\ os_environ = [PIP_PRE |-> None, UV_PRERELEASE |-> None, UV_PYTHON |-> None]
    /\ requires \in SeqUpTo(Lines, MaxReqs)
    /\ extra_index_url \in SeqUpTo(Urls, MaxUrls)
    /\ todo = Range(requires)
    /\ done = <<>>
    /\ d = NewDirective
    /\ pc = "loop"
    /\ url = 0
    /\ args = None
    /\ packages = <<>>
    /\ cand = 0
    /\ installed_packages = <<>>
    /\ conda_pkgs = <<>>
    /\ pip_pkgs = <<>>
    /\ cmds = <<>>
    /\ batches = <<>>
    /\ installed_from = <<>>
    /\ conda_from = <<>>
    /\ pip_from = <<>>
    /\ call = NoCall

\* a turn of the loop of the line 140, up to its first command: the set
\* requires yields its lines in an order of its own
BeginDirective ==
    /\ pc = "loop"
    /\ \E req \in todo :
         Become(Dispatch([State EXCEPT !.todo = @ \ {req}, !.done = Append(@, req),
                                       !.d = Parse(req), !.cmds = <<>>, !.url = 0,
                                       !.args = None, !.packages = <<>>, !.cand = 0]))

\* the loop is over
EndLoop ==
    /\ pc = "loop"
    /\ todo = {}
    /\ Become(PipBatch(State))

CondaSearchReturns ==
    /\ pc = "conda_search"
    /\ \E r \in CondaSearchResults : Become(CondaSearched(State, r.returncode, r.stdout))

CondaInstallReturns ==
    /\ pc = "conda_install"
    /\ \E returncode \in ExitCodes : Become(CondaInstalled(State, returncode))

PacmanSearchReturns ==
    /\ pc = "pacman_search"
    /\ \E r \in PacmanSearchResults : Become(PacmanSearched(State, r.returncode, r.stdout))

PacmanInstallReturns ==
    /\ pc = "pacman_install"
    /\ \E returncode \in ExitCodes : Become(PacmanInstalled(State, returncode))

PipInstallReturns ==
    /\ pc = "pip_install"
    /\ \E returncode \in ExitCodes : Become(PipInstalled(State, returncode))

PipRetryReturns ==
    /\ pc = "pip_retry"
    /\ \E returncode \in ExitCodes : Become(PipRetried(State, returncode))

PipBatchReturns ==
    /\ pc = "pip_batch"
    /\ \E returncode \in ExitCodes : Become(PipBatched(State, returncode))

CondaBatchReturns ==
    /\ pc = "conda_batch"
    /\ \E returncode \in ExitCodes : Become(CondaBatched(State, returncode))

Next ==
    \/ BeginDirective
    \/ EndLoop
    \/ CondaSearchReturns
    \/ CondaInstallReturns
    \/ PacmanSearchReturns
    \/ PacmanInstallReturns
    \/ PipInstallReturns
    \/ PipRetryReturns
    \/ PipBatchReturns
    \/ CondaBatchReturns

Spec == Init /\ [][Next]_vars

-----------------------------------------------------------------------------
(* The calls of is_supported_platform the model runs *)

\* the symbols of a platform constraint
ConstraintSymbols == {"linux", "macos", "mingw", "windows", "!", ","}

\* the values given for platform: None, a string, a list of tags
PlatformArguments ==
    {PyNone}
    \cup {PyStr(c) : c \in SeqUpTo(ConstraintSymbols, MaxLen)}
    \cup {PyList(l) : l \in SeqUpTo({<<"linux">>, <<"!", "linux">>, <<"windows">>,
                                     <<"!", "windows">>}, MaxLen - 2)}

InitPlatform ==
    /\ PLATFORM \in Platforms
    /\ IS_CONDA = FALSE
    /\ IS_FINAL_VERSION = TRUE
    /\ PIP_UPGRADE = FALSE
    /\ packaging = TRUE
    /\ os_environ = [PIP_PRE |-> None, UV_PRERELEASE |-> None, UV_PYTHON |-> None]
    /\ requires = <<>>
    /\ extra_index_url = <<>>
    /\ todo = {}
    /\ done = <<>>
    /\ d = NewDirective
    /\ pc = "done"
    /\ url = 0
    /\ args = None
    /\ packages = <<>>
    /\ cand = 0
    /\ installed_packages = <<>>
    /\ conda_pkgs = <<>>
    /\ pip_pkgs = <<>>
    /\ cmds = <<>>
    /\ batches = <<>>
    /\ installed_from = <<>>
    /\ conda_from = <<>>
    /\ pip_from = <<>>
    /\ call \in [ platform : PlatformArguments,
                  platform_in_use : {None} \cup {Some(tag) : tag \in PlatformTags},
                  result : {None} ]

\* is_supported_platform(platform, platform_in_use) returns
CallIsSupportedPlatform ==
    /\ call.result = None
    /\ call' = [call EXCEPT !.result =
                   Some(is_supported_platform(call.platform, call.platform_in_use))]
    /\ UNCHANGED <<env_vars, loop_vars, out_vars, pc, cmds, batches>>

NextPlatform == CallIsSupportedPlatform

SpecPlatform == InitPlatform /\ [][NextPlatform]_vars

-----------------------------------------------------------------------------
(* The requirement lines the model gives to the parser alone *)

\* the tokens of a line: requirements, flags, the empty token two spaces in a
\* row give, a token that looks like a flag and is none
Tokens ==
    { <<"foo">>, <<"bar", "==1.0">>, <<"--no-deps">>, <<"--upgrade">>, <<"--pre">>,
      <<"--conda=", "cfoo">>, <<"--conda=">>, <<"--platform=", "linux">>,
      <<"--python-version", ">=", "3.13">>, <<>>, <<"--bogus">> }

RECURSIVE Join(_)
\* " ".join(tokens)
Join(tokens) ==
    IF tokens = <<>> THEN <<>>
    ELSE IF Len(tokens) = 1 THEN tokens[1]
    ELSE tokens[1] \o <<" ">> \o Join(Tail(tokens))

\* the tokens in the order perm puts them
Permuted(tokens, perm) == [n \in 1..Len(tokens) |-> tokens[perm[n]]]

InitParse ==
    /\ PLATFORM = <<"linux", "-", "x86_64">>
    /\ IS_CONDA = FALSE
    /\ IS_FINAL_VERSION = TRUE
    /\ PIP_UPGRADE \in BOOLEAN
    /\ packaging \in BOOLEAN
    /\ os_environ = [PIP_PRE |-> None, UV_PRERELEASE |-> None, UV_PYTHON |-> None]
    /\ requires = <<>>
    /\ extra_index_url = <<>>
    /\ todo = {}
    /\ done = <<>>
    /\ d = NewDirective
    /\ pc = "done"
    /\ url = 0
    /\ args = None
    /\ packages = <<>>
    /\ cand = 0
    /\ installed_packages = <<>>
    /\ conda_pkgs = <<>>
    /\ pip_pkgs = <<>>
    /\ cmds = <<>>
    /\ batches = <<>>
    /\ installed_from = <<>>
    /\ conda_from = <<>>
    /\ pip_from = <<>>
    /\ call \in [ tokens : SeqUpTo(Tokens, MaxTokens), perm : {<<>>}, result : {None} ]

\* the lines 141-174 read a line, and the line of the same tokens in another order
ParseLine ==
    /\ call.result = None
    /\ \E perm \in Permutations(1..Len(call.tokens)) :
         call' = [call EXCEPT
                    !.perm = perm,
                    !.result = Some([ first |-> Parse(Join(call.tokens)),
                                      second |-> Parse(Join(Permuted(call.tokens, perm))) ])]
    /\ UNCHANGED <<env_vars, loop_vars, out_vars, pc, cmds, batches>>

NextParse == ParseLine

SpecParse == InitParse /\ [][NextParse]_vars

-----------------------------------------------------------------------------
(* The package names the model makes MSYS2 candidate names for *)

\* the symbols of these names
PackageSymbols == {"My", "Package", "my", "package", "_", "-"}

\* the names: a name starts and ends with a letter
PackageNames ==
    {name \in SeqUpTo(PackageSymbols, MaxName) :
        /\ name # <<>>
        /\ name[1] \notin {"_", "-"}
        /\ name[Len(name)] \notin {"_", "-"}}

InitCandidates ==
    /\ PLATFORM = <<"mingw", "_", "x86_64", "_", "ucrt">>
    /\ IS_CONDA = FALSE
    /\ IS_FINAL_VERSION = TRUE
    /\ PIP_UPGRADE = FALSE
    /\ packaging = TRUE
    /\ os_environ = [PIP_PRE |-> None, UV_PRERELEASE |-> None, UV_PYTHON |-> None]
    /\ requires = <<>>
    /\ extra_index_url = <<>>
    /\ todo = {}
    /\ done = <<>>
    /\ d = NewDirective
    /\ pc = "done"
    /\ url = 0
    /\ args = None
    /\ packages = <<>>
    /\ cand = 0
    /\ installed_packages = <<>>
    /\ conda_pkgs = <<>>
    /\ pip_pkgs = <<>>
    /\ cmds = <<>>
    /\ batches = <<>>
    /\ installed_from = <<>>
    /\ conda_from = <<>>
    /\ pip_from = <<>>
    /\ call \in [ package : PackageNames, result : {None} ]

\* the lines 236-251 make the list packages of a name
MakeCandidates ==
    /\ call.result = None
    /\ call' = [call EXCEPT !.result = Some(Candidates(call.package))]
    /\ UNCHANGED <<env_vars, loop_vars, out_vars, pc, cmds, batches>>

NextCandidates == MakeCandidates

SpecCandidates == InitCandidates /\ [][NextCandidates]_vars

-----------------------------------------------------------------------------
(* The python-version specifiers the model gives to the filter alone *)

\* the symbols of a specifier
SpecifierSymbols == {">=", "<", "3.9", "3.13", "'"}

\* what follows --python-version in a line: no such token, or a specifier
PythonVersions == {None} \cup {Some(spec) : spec \in SeqUpTo(SpecifierSymbols, MaxSpec)}

InitPython ==
    /\ PLATFORM \in Platforms
    /\ IS_CONDA = FALSE
    /\ IS_FINAL_VERSION = TRUE
    /\ PIP_UPGRADE = FALSE
    /\ packaging \in BOOLEAN
    /\ os_environ = [PIP_PRE |-> None, UV_PRERELEASE |-> None, UV_PYTHON |-> None]
    /\ requires = <<>>
    /\ extra_index_url = <<>>
    /\ todo = {}
    /\ done = <<>>
    /\ d = NewDirective
    /\ pc = "done"
    /\ url = 0
    /\ args = None
    /\ packages = <<>>
    /\ cand = 0
    /\ installed_packages = <<>>
    /\ conda_pkgs = <<>>
    /\ pip_pkgs = <<>>
    /\ cmds = <<>>
    /\ batches = <<>>
    /\ installed_from = <<>>
    /\ conda_from = <<>>
    /\ pip_from = <<>>
    /\ call \in [ python_version : PythonVersions, result : {None} ]

\* the lines 175-178 filter a directive that has no platform constraint
FilterPython ==
    /\ call.result = None
    /\ call' = [call EXCEPT !.result =
                   Some(Supported([NewDirective EXCEPT
                                     !.python_version = call.python_version]))]
    /\ UNCHANGED <<env_vars, loop_vars, out_vars, pc, cmds, batches>>

NextPython == FilterPython

SpecPython == InitPython /\ [][NextPython]_vars

-----------------------------------------------------------------------------
(* cx_Freeze/winversioninfo.py: VersionInfo *)

RECURSIVE JoinWith(_, _)
\* sep.join(parts)
JoinWith(parts, sep) ==
    IF parts = <<>> THEN <<>>
    ELSE IF Len(parts) = 1 THEN parts[1]
    ELSE parts[1] \o <<sep>> \o JoinWith(Tail(parts), sep)

RECURSIVE Padded(_)
\* while len(parts) < 4: parts.append("0")
Padded(parts) == IF Len(parts) < 4 THEN Padded(Append(parts, <<"0">>)) ELSE parts

\* VersionInfo.__init__: the fields of the object; the fields not given are None
VersionInfo(version, dll, verbose) ==
    [ version |-> JoinWith(Padded(Split(version, ".")), "."),
      internal_name |-> None, original_filename |-> None, comments |-> None,
      company |-> None, description |-> None, copyright |-> None,
      trademarks |-> None, product |-> None, dll |-> dll, debug |-> None,
      verbose |-> verbose ]

\* stamp, were the routine looked for before the file
stamp_routine_first(self, path, version_stamp) ==
    IF version_stamp = None
    THEN [raised |-> Some("RuntimeError"), stamped |-> <<>>, self |-> self]
    ELSE IF ~path.is_file
    THEN [raised |-> Some("FileNotFoundError"), stamped |-> <<>>, self |-> self]
    ELSE [raised |-> None, stamped |-> <<[path |-> path.name, info |-> self]>>,
          self |-> self]

\* VersionInfo.stamp: [raised |-> the exception, if any, stamped |-> the calls of
\* the stamping routine, self |-> the object after the call]
stamp(self, path, version_stamp) ==
    IF ~path.is_file
    THEN [raised |-> Some("FileNotFoundError"), stamped |-> <<>>, self |-> self]
    ELSE IF version_stamp = None
    THEN [raised |-> Some("RuntimeError"), stamped |-> <<>>, self |-> self]
    ELSE [raised |-> None, stamped |-> <<[path |-> path.name, info |-> self]>>,
          self |-> self]

\* the versions a VersionInfo is made of
VersionSymbols == {"1", "2", "."}
\* the paths given to stamp: a str or a Path, of a file or of none
Paths == [type : {"str", "Path"}, name : {"app.exe"}, is_file : BOOLEAN]

InitStamp ==
    /\ PLATFORM = <<"win", "-", "amd64">>
    /\ IS_CONDA = FALSE
    /\ IS_FINAL_VERSION = TRUE
    /\ PIP_UPGRADE = FALSE
    /\ packaging = TRUE
    /\ os_environ = [PIP_PRE |-> None, UV_PRERELEASE |-> None, UV_PYTHON |-> None]
    /\ requires = <<>>
    /\ extra_index_url = <<>>
    /\ todo = {}
    /\ done = <<>>
    /\ d = NewDirective
    /\ pc = "done"
    /\ url = 0
    /\ args = None
    /\ packages = <<>>
    /\ cand = 0
    /\ installed_packages = <<>>
    /\ conda_pkgs = <<>>
    /\ pip_pkgs = <<>>
    /\ cmds = <<>>
    /\ batches = <<>>
    /\ installed_from = <<>>
    /\ conda_from = <<>>
    /\ pip_from = <<>>
    /\ call \in [ version : SeqUpTo(VersionSymbols, MaxVersion),
                  dll : {None, Some(TRUE)},
                  verbose : BOOLEAN,
                  version_stamp : {None, Some("win32verstamp.stamp")},
                  path : Paths,
                  self : {None},
                  stamped : {<<>>},
                  raised : {None},
                  returned : {FALSE} ]

\* VersionInfo(version, dll=..., verbose=...)
Construct ==
    /\ call.self = None
    /\ call' = [call EXCEPT !.self = Some(VersionInfo(call.version, call.dll, call.verbose))]
    /\ UNCHANGED <<env_vars, loop_vars, out_vars, pc, cmds, batches>>

\* self.stamp(path)
Stamp ==
    /\ call.self # None
    /\ ~call.returned
    /\ LET r == stamp(call.self[1], call.path, call.version_stamp)
       IN call' = [call EXCEPT !.self = Some(r.self), !.stamped = r.stamped,
                               !.raised = r.raised, !.returned = TRUE]
    /\ UNCHANGED <<env_vars, loop_vars, out_vars, pc, cmds, batches>>

NextStamp == Construct \/ Stamp

SpecStamp == InitStamp /\ [][NextStamp]_vars

-----------------------------------------------------------------------------
(* What the claims speak of *)

\* a directive is at hand, or was the last one
Started == done # <<>>
\* the line at hand
CurrentLine == done[Len(done)]

\* the commands of one package manager among the commands of the line at hand
CommandsOf(prog) == SelectSeq(cmds, LAMBDA c : c.prog = prog)
PipCommands == CommandsOf("pip")

\* the line at hand is in the queue of the batched pip, conda install
QueuedForPip == CurrentLine \in Range(pip_from)
QueuedForConda == CurrentLine \in Range(conda_from)
\* the line at hand has an entry in the outcome list
InOutcome == CurrentLine \in Range(installed_from)

\* a command returned and the program took it for a success
Succeeded(c) ==
    /\ c.returned
    /\ c.returncode = 0
    /\ (c.prog = "pacman" /\ c.verb = "search") => c.stdout = "installed"

\* pacman was asked for every candidate of the line at hand, and none came through
PacmanExhausted ==
    /\ packages # <<>>
    /\ \A n \in 1..Len(packages) :
          \E m \in 1..Len(cmds) :
             /\ cmds[m].prog = "pacman"
             /\ cmds[m].verb = "search"
             /\ cmds[m].pkgs = <<MingwPackage(packages[n])>>
    /\ \A m \in 1..Len(cmds) :
          cmds[m].prog = "pacman" => cmds[m].returned /\ ~Succeeded(cmds[m])

\* the line at hand went to pip / uv: a command of its own, or the queue
HandedToPip == PipCommands # <<>> \/ QueuedForPip

\* the directive carries one of the five flags
Flagged(dir) ==
    dir.no_deps \/ dir.only_binary \/ dir.pre_release \/ dir.prefer_binary \/ dir.upgrade

\* the tags of a constraint, and the platforms it allows: the included tags,
\* or all four platforms when it includes none, less the excluded tags
Included(tags) == {tag \in Range(tags) : ~StartsWith(tag, "!")}
Excluded(tags) == {Tail(tag) : tag \in {t \in Range(tags) : StartsWith(t, "!")}}
Allowed(tags) ==
    (IF Included(tags) # {} THEN Included(tags) ELSE PlatformTags) \ Excluded(tags)

\* the platform constraint of the directive leaves the current platform out
PlatformLeftOut(dir) ==
    /\ dir.platform # None
    /\ platform_in_use_default \notin Allowed(Split(dir.platform[1], ","))

\* the interpreter does not satisfy the python-version constraint of the directive
PythonLeftOut(dir) ==
    /\ dir.python_version # None
    /\ dir.python_version[1] # <<>>
    /\ ValidSpecifier(dir.python_version[1])
    /\ ~InSpecifierSet(PYTHON_VERSION, dir.python_version[1])

\* nothing was done for the line at hand
Untouched == cmds = <<>> /\ ~QueuedForPip /\ ~QueuedForConda /\ ~InOutcome

TypeOK == pc \in {"loop", "conda_search", "conda_install", "pacman_search",
                  "pacman_install", "pip_install", "pip_retry", "pip_batch",
                  "conda_batch", "done", "raised"}

-----------------------------------------------------------------------------
(* C1 *)

\* C1, as stated: on MSYS2 (no Conda), a directive none of whose candidates
\* pacman found installed or installed is dropped: no pip / uv command is run
\* for it and it is not queued for the batched pip / uv install.
C1_DroppedAfterPacman ==
    (~IS_CONDA /\ IS_MINGW /\ Started /\ PacmanExhausted) => ~HandedToPip

\* C1, amended: on MSYS2 (no Conda), a directive goes to pip / uv exactly when
\* pacman was asked for every one of its candidates and none came through; it
\* is then installed by a pip / uv command of its own when it has options of
\* its own, and queued for the batched pip / uv install otherwise.
C1_FallsThroughToPip ==
    (~IS_CONDA /\ IS_MINGW /\ Started) =>
        /\ HandedToPip <=> PacmanExhausted
        /\ PacmanExhausted =>
              IF Individually(d)
              THEN /\ ~QueuedForPip
                   /\ PipCommands[1].pkgs = <<d.require[1].str>>
              ELSE PipCommands = <<>> /\ QueuedForPip

C1_Witness ==
    /\ ~IS_CONDA /\ IS_MINGW /\ Started
    /\ PacmanExhausted
    /\ \E n \in 1..Len(cmds) : cmds[n].prog = "pacman" /\ cmds[n].verb = "install"
    /\ PipCommands # <<>>
    /\ PipCommands[1].returned

-----------------------------------------------------------------------------
(* C2 *)

\* the package manager the environment selects
Backend == IF IS_CONDA THEN "conda" ELSE IF IS_MINGW THEN "pacman" ELSE "pip"

\* C2, as stated: every command of a call is a command of the one package
\* manager the environment selects.
C2_OneBackend ==
    /\ \A n \in 1..Len(cmds) : cmds[n].prog = Backend
    /\ \A n \in 1..Len(batches) : batches[n].prog = Backend

\* C2, amended: with the Conda marker every command is a conda command; with
\* neither the marker nor MinGW every command is a pip / uv command; on MinGW
\* without the marker the commands are pacman commands and, for the
\* directives none of whose candidates pacman installed, pip / uv commands.
\* Which of the three it is depends on the environment alone.
C2_BackendOfCommands ==
    /\ \A n \in 1..Len(cmds) :
          /\ cmds[n].prog \in {Backend, "pip"}
          /\ cmds[n].prog # Backend =>
                /\ Backend = "pacman"
                /\ \A m \in 1..(n - 1) : cmds[m].returned /\ ~Succeeded(cmds[m])
                /\ \A k \in 1..Len(packages) :
                      \E m \in 1..(n - 1) :
                         /\ cmds[m].prog = "pacman"
                         /\ cmds[m].pkgs = <<MingwPackage(packages[k])>>
    /\ \A n \in 1..Len(batches) :
          /\ batches[n].prog \in {Backend, "pip"}
          /\ batches[n].prog # Backend => Backend = "pacman"
    /\ (Started /\ cmds # <<>>) => cmds[1].prog = Backend

C2_Witness ==
    /\ IS_CONDA /\ IS_MINGW
    /\ pc = "done"
    /\ cmds # <<>>
    /\ batches # <<>>
    /\ Parse(CurrentLine).alias_for_mingw # None

-----------------------------------------------------------------------------
(* C3 *)

\* C3, as stated: the directives are processed in the order of the input list
\* (and the outcome list is in the order of the invocations).
C3_InputOrder ==
    \A n \in 1..Len(done) : n <= Len(requires) /\ done[n] = requires[n]

\* the place of a line in the order of processing
Position(line) == CHOOSE n \in 1..Len(done) : done[n] = line
\* what the batched installs that came through have installed
BatchInstalled ==
    Flatten([n \in 1..Len(batches) |->
                IF Succeeded(batches[n]) THEN batches[n].pkgs ELSE <<>>])
\* the number of entries of the outcome list that single installs made
SingleInstalled == Len(installed_packages) - Len(BatchInstalled)

\* C3, amended: the directives are processed one at a time, each distinct line
\* of the input once, in the order the set built from the input yields them
\* (not the order of the input list); the outcome list is in the order of the
\* invocations: the single installs in the order their directives were
\* processed, then the members of a batched install, in the order of the queue.
C3_InvocationOrder ==
    /\ Cardinality(Range(done)) = Len(done)
    /\ Range(done) \cap todo = {}
    /\ Range(done) \cup todo = Range(requires)
    /\ batches # <<>> => todo = {}
    /\ SingleInstalled >= 0
    /\ \A m, n \in 1..SingleInstalled :
          m < n => Position(installed_from[m]) < Position(installed_from[n])
    /\ SubSeq(installed_packages, SingleInstalled + 1, Len(installed_packages))
          = BatchInstalled

C3_Witness ==
    /\ pc = "done"
    /\ Len(requires) = 2
    /\ done # requires
    /\ SingleInstalled = 1
    /\ Len(BatchInstalled) = 1

-----------------------------------------------------------------------------
(* C4 - C6 *)

\* pip / uv is the package manager and the directive at hand has reached it
AtPip ==
    /\ Backend = "pip"
    /\ Started
    /\ pc # "raised"
    /\ Supported(d).value
    /\ d.require # None

\* C4, as stated: with pip / uv, a directive with one of the five flags is
\* installed by a command of its own that names this one requirement, and is
\* never queued; a directive with none is queued, no command is run for it in
\* the loop, and the queue is installed by one command after the loop.
C4_FlaggedAloneOthersBatched ==
    /\ AtPip =>
          IF Flagged(d)
          THEN /\ ~QueuedForPip
               /\ PipCommands # <<>>
               /\ PipCommands[1].pkgs = <<d.require[1].str>>
          ELSE cmds = <<>> /\ QueuedForPip
    /\ (Backend = "pip" /\ batches # <<>>) =>
          /\ Len(batches) = 1
          /\ todo = {}
          /\ batches[1].pkgs = pip_pkgs

\* C5, as stated: with pip / uv, a flagged directive without --pre whose first
\* install fails is retried exactly once, with pre-releases allowed; a
\* directive with --pre is never retried.
C5_RetryOnFailure ==
    (Backend # "conda" /\ Started /\ PipCommands # <<>>) =>
        /\ (PipCommands[1].returned /\ PipCommands[1].returncode # 0 /\ ~d.pre_release)
              => /\ Len(PipCommands) = 2
                 /\ PipCommands[2].env.UV_PRERELEASE = Some("allow")
        /\ d.pre_release => Len(PipCommands) = 1

\* C5, amended: with pip / uv, on an interpreter that is not a final release,
\* a flagged directive without --pre whose first install fails is retried
\* exactly once, with pre-releases allowed; a directive with --pre is never
\* retried, and on a final release no directive is.
C5_RetryOnFailureBeforeFinal ==
    (Backend # "conda" /\ Started /\ PipCommands # <<>>) =>
        /\ (PipCommands[1].returned /\ PipCommands[1].returncode # 0 /\ ~d.pre_release
                /\ ~IS_FINAL_VERSION)
              => /\ Len(PipCommands) = 2
                 /\ PipCommands[2].env.UV_PRERELEASE = Some("allow")
        /\ d.pre_release => Len(PipCommands) = 1
        /\ IS_FINAL_VERSION => Len(PipCommands) = 1

C5_Witness ==
    /\ Backend = "pip" /\ ~IS_FINAL_VERSION /\ Started
    /\ ~d.pre_release
    /\ Len(PipCommands) = 2
    /\ PipCommands[2].returned
    /\ PipCommands[2].returncode # 0
    /\ pc = "loop"

\* C6: a directive installed by a pip / uv command of its own gets a second
\* command if and only if the first one failed, the directive has no --pre
\* and the interpreter is not a final release; the second command is the
\* first one again with PIP_PRE=1 and UV_PRERELEASE=allow; a first command of
\* a directive with --pre has PIP_PRE=1 and UV_PRERELEASE=explicit, one of a
\* directive without --pre has neither; there is no third command.
C6_SecondInvocation ==
    (Started /\ PipCommands # <<>>) =>
        /\ Len(PipCommands) <= 2
        /\ Len(PipCommands) = 2 <=>
              /\ PipCommands[1].returned
              /\ PipCommands[1].returncode # 0
              /\ ~d.pre_release
              /\ ~IS_FINAL_VERSION
        /\ Len(PipCommands) = 2 =>
              /\ PipCommands[2].env.PIP_PRE = Some("1")
              /\ PipCommands[2].env.UV_PRERELEASE = Some("allow")
              /\ PipCommands[2].pkgs = PipCommands[1].pkgs
              /\ PipCommands[2].options = PipCommands[1].options
        /\ PipCommands[1].env.PIP_PRE = IF d.pre_release THEN Some("1") ELSE None
        /\ PipCommands[1].env.UV_PRERELEASE
              = IF d.pre_release THEN Some("explicit") ELSE None

C6_Witness ==
    /\ Started
    /\ ~IS_FINAL_VERSION
    /\ Len(PipCommands) = 2
    /\ PipCommands[2].returned
    /\ PipCommands[2].returncode = 0
    /\ \E line \in todo : Parse(line).pre_release /\ Individually(Parse(line))

-----------------------------------------------------------------------------
(* C7 *)

\* C7, as stated: a directive whose platform constraint leaves the current
\* platform out, or whose python-version constraint the interpreter does not
\* satisfy, is left out before any command: no command is run for it, it is
\* in no queue and not in the outcome list; with pip / uv, a directive that
\* passes both filters and names a requirement is dispatched.
C7_FilteredBeforeAnyCommand ==
    Started =>
        /\ (PlatformLeftOut(d) \/ PythonLeftOut(d)) => Untouched
        /\ ( /\ Backend = "pip"
             /\ pc # "raised"
             /\ ~PlatformLeftOut(d)
             /\ ~PythonLeftOut(d)
             /\ d.require # None ) => HandedToPip

\* C7, amended: a directive whose platform constraint leaves the current
\* platform out, or whose python-version constraint the interpreter does not
\* satisfy while the package "packaging" can be imported, is left out before
\* any command: no command is run for it, it is in no queue and not in the
\* outcome list; with pip / uv, any other directive that names a requirement
\* is dispatched.
C7_FilteredWhenEvaluated ==
    Started =>
        /\ (PlatformLeftOut(d) \/ (packaging /\ PythonLeftOut(d))) => Untouched
        /\ ( /\ Backend = "pip"
             /\ pc # "raised"
             /\ ~PlatformLeftOut(d)
             /\ ~(packaging /\ PythonLeftOut(d))
             /\ d.require # None ) => HandedToPip

C7_Witness ==
    /\ IS_WINDOWS /\ Backend = "pip"
    /\ pc = "done"
    /\ Len(done) = 2
    /\ PlatformLeftOut(Parse(done[1]))
    /\ ~PlatformLeftOut(d) /\ ~PythonLeftOut(d)
    /\ installed_from = <<done[2]>>

-----------------------------------------------------------------------------
(* C8 - C9 *)

\* a call of is_supported_platform has returned
Called == call.result # None
\* the platform in use of the call
InUse ==
    IF call.platform_in_use = None THEN platform_in_use_default
    ELSE call.platform_in_use[1]

\* C8: for a constraint given as a string of tags that commas separate,
\* is_supported_platform returns whether the platform in use is among the
\* tags without "!" (among the four platforms when there is no such tag) and
\* not among the tags with "!"; "!windows" rejects windows alone and
\* "linux,!linux" rejects every platform.  (The empty string is C9's.)
C8_AllowedPlatforms ==
    (Called /\ call.platform.type = "str" /\ call.platform.value # <<>>) =>
        /\ call.result[1] = (InUse \in Allowed(Split(call.platform.value, ",")))
        /\ call.platform.value = <<"!", "windows">>
              => call.result[1] = (InUse # <<"windows">>)
        /\ call.platform.value = <<"linux", ",", "!", "linux">>
              => call.result[1] = FALSE

C8_Witness ==
    /\ Called
    /\ call.platform.type = "str"
    /\ call.platform.value = <<"linux", ",", "!", "linux">>
    /\ InUse = <<"linux">>
    /\ call.result = Some(FALSE)

\* C9, as stated: is_supported_platform returns true for every platform when
\* the constraint is empty: the empty string, the empty list or None.
C9_EmptyConstraintSupported ==
    (Called /\ Len(call.platform.value) = 0) => call.result[1] = TRUE

-----------------------------------------------------------------------------
(* C10 *)

\* C10: with Conda, a directive whose Conda alias is the empty string is left
\* out: no command is run for it, it is in no queue and not in the outcome
\* list, whatever requirement it names.
C10_EmptyCondaAliasSkipped ==
    (IS_CONDA /\ Started /\ d.alias_for_conda = Some(<<>>)) => Untouched

C10_Witness ==
    /\ IS_CONDA /\ Started
    /\ d.alias_for_conda = Some(<<>>)
    /\ d.require # None
    /\ Supported(d).value
    /\ pc = "done"
    /\ installed_packages # <<>>

-----------------------------------------------------------------------------
(* C11 *)

\* the parser was given a line and the line of its tokens in another order
Parsed == call.result # None
\* the tokens the parser takes for a requirement: not empty, and no flag it knows
IsBare(token) ==
    /\ token # <<>>
    /\ token[1] \notin {"--conda=", "--mingw=", "--no-deps", "--platform=",
                         "--python-version", "--only-binary", "--pre",
                         "--prefer-binary", "--upgrade"}
BareTokens(tokens) == {n \in 1..Len(tokens) : IsBare(tokens[n])}
\* the flags that carry a value
ValueFlags == {"--conda=", "--mingw=", "--platform=", "--python-version"}
\* no flag that carries a value is given twice with two values
NoFlagGivenTwice(tokens) ==
    \A m, n \in 1..Len(tokens) :
        (/\ tokens[m] # <<>> /\ tokens[n] # <<>>
         /\ tokens[m][1] \in ValueFlags
         /\ tokens[m][1] = tokens[n][1]) => tokens[m] = tokens[n]

\* two runs of the parser end the same way: the same exception leaves both, or
\* both give a directive and the two are equal in all fields
SameDirective(first, second) ==
    IF first.raised \/ second.raised
    THEN first.raised /\ second.raised
    ELSE first = second

\* C11, as stated: for a line with one bare requirement token, every
\* permutation of its tokens parses to a directive equal in all fields.
C11_AnyPermutation ==
    (Parsed /\ Cardinality(BareTokens(call.tokens)) = 1) =>
        SameDirective(call.result[1].first, call.result[1].second)

\* C11, amended: for a line with one bare requirement token in which no flag
\* that carries a value (--conda=, --mingw=, --platform=, --python-version) is
\* given twice with two values, every permutation of its tokens parses to a
\* directive equal in all fields (or fails to parse the same way).
C11_PermutationOfDistinctFlags ==
    (/\ Parsed
     /\ Cardinality(BareTokens(call.tokens)) = 1
     /\ NoFlagGivenTwice(call.tokens)) =>
        SameDirective(call.result[1].first, call.result[1].second)

C11_Witness ==
    /\ Parsed
    /\ call.tokens = << <<"foo">>, <<"--no-deps">>, <<"--upgrade">> >>
    /\ call.perm = <<1, 3, 2>>
    /\ ~PIP_UPGRADE
    /\ call.result[1].first.no_deps /\ call.result[1].first.upgrade
    /\ call.result[1].first.require # None

-----------------------------------------------------------------------------
(* C12 *)

\* C12: no exception aborts a call of install_requirements: whatever the lines
\* (a version specifier cut short, a token that looks like a flag and is none)
\* and whatever the commands give (any exit code, any output of a search), no
\* exception leaves the call; a failure only leaves the package out of the
\* outcome list.
C12_NoExceptionAborts == pc # "raised"

-----------------------------------------------------------------------------
(* C13 *)

\* the environment a command runs in has a pre-release toggle the process
\* environment has not
Toggled(c) ==
    \/ c.env.PIP_PRE # os_environ.PIP_PRE
    \/ c.env.UV_PRERELEASE # os_environ.UV_PRERELEASE

\* the n-th command of the line at hand is the retry of a failed pip / uv install
IsRetry(n) ==
    /\ n > 1
    /\ cmds[n].prog = "pip"
    /\ cmds[n - 1].prog = "pip"
    /\ cmds[n - 1].returned
    /\ cmds[n - 1].returncode # 0

\* C13: the overrides of one command never leak: the process environment is as
\* it was when the call began, and a pre-release toggle (PIP_PRE,
\* UV_PRERELEASE) is in the environment of a command only when the directive
\* the command is run for asked for pre-releases or the command is the retry of
\* that directive; it is in the environment of no command of another directive
\* and not in that of the batched pip / uv command.
C13_NoLeak ==
    /\ os_environ = [PIP_PRE |-> None, UV_PRERELEASE |-> None, UV_PYTHON |-> None]
    /\ \A n \in 1..Len(cmds) :
          Toggled(cmds[n]) => (cmds[n].prog = "pip" /\ (d.pre_release \/ IsRetry(n)))
    /\ \A n \in 1..Len(batches) : ~Toggled(batches[n])

C13_Witness ==
    /\ Len(done) = 2
    /\ Parse(done[1]).pre_release
    /\ Individually(Parse(done[1]))
    /\ done[1] \in Range(installed_from)
    /\ ~d.pre_release
    /\ pc = "pip_batch"
    /\ batches[1].pkgs = <<d.require[1].str>>
    /\ ~Toggled(batches[1])

-----------------------------------------------------------------------------
(* C14 *)

\* the batched pip / uv commands of the call
PipBatches == SelectSeq(batches, LAMBDA c : c.prog = "pip")
\* the last n entries of a sequence
Last(seq, n) == SubSeq(seq, Len(seq) - n + 1, Len(seq))
\* some line of the queue of the batched pip / uv install has an entry in the
\* outcome list
BatchMemberInOutcome == Range(pip_from) \cap Range(installed_from) # {}

\* C14: the batched pip / uv install is run at most once in a call and never
\* again, also on an interpreter that is no final release; it is given the
\* whole queue; when it exits non-zero no member of the batch is in the outcome
\* list, and when it exits zero all of them are, in queue order.
C14_BatchOnceAllOrNone ==
    /\ Len(PipBatches) <= 1
    /\ PipBatches = <<>> => ~BatchMemberInOutcome
    /\ PipBatches # <<>> =>
          LET batch == PipBatches[1]
          IN /\ batch.pkgs = pip_pkgs
             /\ todo = {}
             /\ ~batch.returned => (pc = "pip_batch" /\ ~BatchMemberInOutcome)
             /\ (batch.returned /\ batch.returncode # 0) =>
                   (pc = "done" /\ ~BatchMemberInOutcome)
             /\ (batch.returned /\ batch.returncode = 0) =>
                   /\ pc = "done"
                   /\ Len(installed_packages) >= Len(pip_pkgs)
                   /\ Last(installed_packages, Len(pip_pkgs)) = pip_pkgs
                   /\ Last(installed_from, Len(pip_pkgs)) = pip_from

C14_Witness ==
    /\ ~IS_FINAL_VERSION
    /\ pc = "done"
    /\ Len(pip_pkgs) = 2
    /\ Len(PipBatches) = 1
    /\ PipBatches[1].returned
    /\ PipBatches[1].returncode = 1
    /\ ~BatchMemberInOutcome

-----------------------------------------------------------------------------
(* C15 *)

\* the candidate names of a package name were made
Made == call.result # None
\* python-<name>
WithPython(name) == <<"python", "-">> \o name
\* <name>, its underscores turned into hyphens
Hyphenated(name) == [n \in 1..Len(name) |-> IF name[n] = "_" THEN "-" ELSE name[n]]

\* C15: for a name with upper-case letters and underscores, such as
\* My_Package, the candidate names are, always in this order: python-<name>,
\* <name>, the lower-cased forms of the two, and the hyphenated forms of all
\* four.
C15_CandidatesOfMixedCaseName ==
    (/\ Made
     /\ \E n \in 1..Len(call.package) : call.package[n] \in UpperSymbols
     /\ \E n \in 1..Len(call.package) : call.package[n] = "_") =>
        LET name == call.package
        IN call.result[1] =
              << WithPython(name), name,
                 Lower(WithPython(name)), Lower(name),
                 Hyphenated(WithPython(name)), Hyphenated(name),
                 Hyphenated(Lower(WithPython(name))), Hyphenated(Lower(name)) >>

C15_Witness ==
    /\ Made
    /\ call.package = <<"My", "_", "Package">>
    /\ call.result[1] =
          << <<"python", "-", "My", "_", "Package">>, <<"My", "_", "Package">>,
             <<"python", "-", "my", "_", "package">>, <<"my", "_", "package">>,
             <<"python", "-", "My", "-", "Package">>, <<"My", "-", "Package">>,
             <<"python", "-", "my", "-", "package">>, <<"my", "-", "package">> >>

-----------------------------------------------------------------------------
(* C16 *)

\* the directive of the line as given
Directive == call.result[1].first
\* the last bare token of the line
LastBare(tokens) ==
    tokens[CHOOSE n \in BareTokens(tokens) : \A m \in BareTokens(tokens) : m <= n]
\* the value of the last token of a flag that carries a value, None without one
LastValue(tokens, flag) ==
    LET given == {n \in 1..Len(tokens) : StartsWith(tokens[n], flag)}
    IN IF given = {} THEN None
       ELSE Some(Tail(tokens[CHOOSE n \in given : \A m \in given : m <= n]))

\* C16: when a line has several bare (non-empty, no flag the parser knows)
\* tokens, the requirement of its directive is the last of them, and the flags
\* before and after it are kept.
C16_LastBareTokenWins ==
    (/\ Parsed
     /\ Cardinality(BareTokens(call.tokens)) >= 2
     /\ ~Directive.raised) =>
        /\ Directive.require # None
        /\ Directive.require[1].str = LastBare(call.tokens)
        /\ Directive.no_deps <=> <<"--no-deps">> \in Range(call.tokens)
        /\ Directive.pre_release <=> <<"--pre">> \in Range(call.tokens)
        /\ Directive.upgrade <=> (PIP_UPGRADE \/ <<"--upgrade">> \in Range(call.tokens))
        /\ Directive.alias_for_conda = LastValue(call.tokens, "--conda=")
        /\ Directive.platform = LastValue(call.tokens, "--platform=")
        /\ Directive.python_version = LastValue(call.tokens, "--python-version")

C16_Witness ==
    /\ Parsed
    /\ packaging
    /\ call.tokens = << <<"foo">>, <<"--no-deps">>, <<"bar", "==1.0">> >>
    /\ ~Directive.raised
    /\ Directive.require[1].name = <<"bar">>
    /\ Directive.require[1].str = <<"bar", "==1.0">>
    /\ Directive.no_deps

-----------------------------------------------------------------------------
(* C17 *)

\* the n-th command of the line at hand is a pacman probe, a pacman install
IsProbe(n) == cmds[n].prog = "pacman" /\ cmds[n].verb = "search"
IsPacmanInstall(n) == cmds[n].prog = "pacman" /\ cmds[n].verb = "install"
\* the number of probes among the first n commands of the line at hand
Probes(n) == Cardinality({m \in 1..n : IsProbe(m)})
\* the package is in the outcome list for the line at hand
Recorded(package) ==
    \E i \in 1..Len(installed_packages) :
        installed_packages[i] = package /\ installed_from[i] = CurrentLine
\* the entries of the outcome list that are from the line at hand
EntriesOfLine == {i \in 1..Len(installed_from) : installed_from[i] = CurrentLine}

\* C17: on MSYS2 the candidates of a directive are probed in generation order,
\* each at most once; a probe that exits 1 is followed by no install of its
\* candidate; a probe that exits 0 and reports "installed" records the candidate
\* and is the last command of the directive; after any other probe an install
\* of the candidate is run; an install that exits 0 records the candidate and is
\* the last command of the directive; a directive has at most one entry in the
\* outcome list.
C17_ProbesInOrder ==
    (~IS_CONDA /\ IS_MINGW /\ Started) =>
        /\ \A n \in 1..Len(cmds) :
              /\ IsProbe(n) =>
                    /\ Probes(n) <= Len(packages)
                    /\ cmds[n].pkgs = <<MingwPackage(packages[Probes(n)])>>
                    /\ ~cmds[n].returned => (n = Len(cmds) /\ pc = "pacman_search")
                    /\ (cmds[n].returned /\ cmds[n].returncode = 1) =>
                          (n < Len(cmds) => ~IsPacmanInstall(n + 1))
                    /\ (cmds[n].returned /\ Succeeded(cmds[n])) =>
                          (n = Len(cmds) /\ Recorded(cmds[n].pkgs[1]))
                    /\ (cmds[n].returned /\ cmds[n].returncode # 1 /\ ~Succeeded(cmds[n])) =>
                          /\ n < Len(cmds)
                          /\ IsPacmanInstall(n + 1)
                          /\ cmds[n + 1].pkgs = cmds[n].pkgs
              /\ IsPacmanInstall(n) =>
                    /\ n > 1
                    /\ IsProbe(n - 1)
                    /\ cmds[n - 1].pkgs = cmds[n].pkgs
                    /\ cmds[n - 1].returncode # 1
                    /\ ~Succeeded(cmds[n - 1])
                    /\ ~cmds[n].returned => (n = Len(cmds) /\ pc = "pacman_install")
                    /\ (cmds[n].returned /\ cmds[n].returncode = 0) =>
                          (n = Len(cmds) /\ Recorded(cmds[n].pkgs[1]))
                    /\ (cmds[n].returned /\ cmds[n].returncode # 0) =>
                          ~Recorded(cmds[n].pkgs[1])
        /\ Cardinality(EntriesOfLine) <= 1

C17_Witness ==
    /\ ~IS_CONDA /\ IS_MINGW /\ Started
    /\ Len(cmds) = 3
    /\ IsProbe(1) /\ cmds[1].returncode = 2 /\ cmds[1].stdout = "installed"
    /\ IsPacmanInstall(2) /\ cmds[2].returncode = 1
    /\ IsProbe(3) /\ cmds[3].returned /\ Succeeded(cmds[3])
    /\ cmds[3].pkgs = <<MingwPackage(packages[2])>>
    /\ Recorded(cmds[3].pkgs[1])
    /\ pc = "loop"

-----------------------------------------------------------------------------
(* C18 *)

\* the directive at hand is not skipped on Conda: it passes the filters, its
\* conda alias is not empty, and it has an alias or a requirement
NotSkippedOnConda ==
    /\ ~d.raised
    /\ ~Supported(d).raised
    /\ Supported(d).value
    /\ d.alias_for_conda # Some(<<>>)
    /\ d.alias_for_conda # None \/ d.require # None
\* the searches of the line at hand that found a build for this interpreter
Matches ==
    {n \in 1..Len(cmds) : /\ cmds[n].prog = "conda" /\ cmds[n].verb = "search"
                          /\ cmds[n].returned /\ cmds[n].returncode = 0
                          /\ cmds[n].stdout = "match"}
\* the direct installs of the line at hand
DirectInstalls == SelectSeq(cmds, LAMBDA c : c.prog = "conda" /\ c.verb = "install")
\* the batched conda installs of the call
CondaBatches == SelectSeq(batches, LAMBDA c : c.prog = "conda")

\* C18: on Conda a directive that is not skipped ends in one of two ways: when
\* a search found a build for this interpreter, one direct install of the URL
\* of such a build is run and the requirement is not queued; otherwise no
\* direct install is run and the requirement is queued.  The batched conda
\* install is run once, after all directives, exactly when the queue is not
\* empty, and is given the whole queue.
C18_InstalledDirectlyOrQueued ==
    IS_CONDA =>
        /\ (Started /\ NotSkippedOnConda /\ pc \notin {"conda_search", "conda_install"}) =>
              IF Matches # {}
              THEN /\ Len(DirectInstalls) = 1
                   /\ DirectInstalls[1].pkgs[1] \in
                         {FileUrl(n, d.require[1].name) : n \in 1..Len(extra_index_url)}
                   /\ ~QueuedForConda
              ELSE DirectInstalls = <<>> /\ QueuedForConda
        /\ Len(CondaBatches) <= 1
        /\ CondaBatches # <<>> => (todo = {} /\ CondaBatches[1].pkgs = conda_pkgs)
        /\ pc = "done" => (CondaBatches # <<>> <=> conda_pkgs # <<>>)

-----------------------------------------------------------------------------
(* C19 *)

\* C19: on MSYS2 (no Conda) a directive whose MinGW alias is the empty string
\* (--mingw=) is left out: no pacman probe or install and no pip / uv command
\* is run for it, it is not queued and it is not in the outcome list; a
\* directive without a --mingw token that has a requirement and passes the
\* filters is probed under the name of its requirement.
C19_EmptyMingwAliasExcluded ==
    (~IS_CONDA /\ IS_MINGW /\ Started /\ ~d.raised) =>
        /\ d.alias_for_mingw = Some(<<>>) => Untouched
        /\ (/\ d.alias_for_mingw = None
            /\ d.require # None
            /\ ~Supported(d).raised
            /\ Supported(d).value) =>
              /\ cmds # <<>>
              /\ cmds[1].prog = "pacman"
              /\ cmds[1].verb = "search"
              /\ cmds[1].pkgs = <<MingwPackage(<<"python", "-">> \o d.require[1].name)>>

C19_Witness ==
    /\ ~IS_CONDA /\ IS_MINGW /\ Started
    /\ Len(done) = 2
    /\ Parse(done[1]).alias_for_mingw = None
    /\ done[1] \in Range(installed_from)
    /\ d.alias_for_mingw = Some(<<>>)
    /\ d.require # None
    /\ Supported(d).value
    /\ pc = "done"
    /\ Untouched

-----------------------------------------------------------------------------
(* C20 *)

\* the call waits for a command to return
Waiting == pc \in {"conda_search", "conda_install", "pacman_search", "pacman_install",
                   "pip_install", "pip_retry", "pip_batch", "conda_batch"}

\* C20: the outcome list is append-only and sound: a step never removes or
\* reorders its entries, and it appends only when the command the call waited
\* for exits 0 (an install of one directive, a batched install, or a pacman
\* probe that reports the package installed), and then what that command was
\* run for: the name of the requirement, the URL of the build, the pacman
\* package, or the members of the batch.
C20_AppendOnlySound ==
    [][ /\ Len(installed_packages') >= Len(installed_packages)
        /\ SubSeq(installed_packages', 1, Len(installed_packages)) = installed_packages
        /\ installed_packages' # installed_packages =>
              /\ Waiting
              /\ LET batched == pc \in {"pip_batch", "conda_batch"}
                     c == IF batched THEN batches'[Len(batches)] ELSE cmds'[Len(cmds)]
                     added == SubSeq(installed_packages', Len(installed_packages) + 1,
                                     Len(installed_packages'))
                 IN /\ Succeeded(c)
                    /\ added = IF c.prog = "pip" /\ ~batched
                               THEN <<d.require[1].name>>
                               ELSE c.pkgs
      ]_vars

C20_Witness ==
    /\ pc = "done"
    /\ Len(done) = 2
    /\ Len(cmds) = 2
    /\ cmds[1].returned /\ cmds[1].returncode = 1
    /\ cmds[2].returned /\ cmds[2].returncode = 0
    /\ batches # <<>>
    /\ batches[1].returned /\ batches[1].returncode = 0
    /\ Len(installed_packages) = 2

-----------------------------------------------------------------------------
(* C21 *)

\* <name>, its hyphens turned into underscores
Underscored(name) == [n \in 1..Len(name) |-> IF name[n] = "-" THEN "_" ELSE name[n]]
\* the variants of a name: lower-cased and / or '-' swapped for '_'
Variants(name) ==
    {name, Lower(name), Underscored(name), Underscored(Lower(name))}

\* C21: for a name with hyphens and no underscores, every candidate name is a
\* variant v of the name (lower-cased and / or '-' swapped for '_') or
\* python-<v>, the prefix "python-" as it is.
C21_PrefixKept ==
    (/\ Made
     /\ \E n \in 1..Len(call.package) : call.package[n] = "-"
     /\ \A n \in 1..Len(call.package) : call.package[n] # "_") =>
        \A n \in 1..Len(call.result[1]) :
            call.result[1][n] \in
                Variants(call.package) \cup {WithPython(v) : v \in Variants(call.package)}

-----------------------------------------------------------------------------
(* C22 *)

\* the filter was run on a directive
Filtered == call.result # None
\* the filter let the directive through, left it out, failed with an exception
Accepted == ~call.result[1].raised /\ call.result[1].value
Rejected == ~call.result[1].raised /\ ~call.result[1].value
\* the specifier of the directive, its quotes taken off
Specifier == SelectSeq(call.python_version[1], LAMBDA sym : sym # "'")
\* the directive has a specifier
HasSpecifier == call.python_version # None /\ call.python_version[1] # <<>>
\* the interpreter version is in the range the specifier gives
Satisfied == ValidSpecifier(Specifier) /\ InSpecifierSet(PYTHON_VERSION, Specifier)

\* C22: the python-version filter accepts a directive that has no specifier,
\* one whose specifier the interpreter version satisfies, and every directive
\* when packaging cannot be imported (it neither rejects nor fails then); it
\* rejects a directive only when packaging can be imported and the version
\* does not satisfy the specifier.
C22_DegradesToSupported ==
    Filtered =>
        /\ ~HasSpecifier => Accepted
        /\ (HasSpecifier /\ ~packaging) => Accepted
        /\ (HasSpecifier /\ packaging /\ Satisfied) => Accepted
        /\ Rejected => (/\ HasSpecifier /\ packaging /\ ValidSpecifier(Specifier)
                        /\ ~InSpecifierSet(PYTHON_VERSION, Specifier))

C22_Witness ==
    /\ Filtered
    /\ ~packaging
    /\ call.python_version = Some(<<">=", "3.13">>)
    /\ Accepted

-----------------------------------------------------------------------------
(* C23 *)

\* the call is over: it returned the outcome list, or an exception left it
Terminated == pc \in {"done", "raised"}
\* at most one command has yet to return
OneAtATime ==
    Cardinality({n \in 1..Len(cmds) : ~cmds[n].returned})
        + Cardinality({n \in 1..Len(batches) : ~batches[n].returned}) <= 1
\* the most candidate names a directive has: two, doubled twice
MaxCandidates == 8
\* the commands of the line at hand, and the batched commands, are within bounds
Bounded ==
    /\ Len(CommandsOf("conda")) <= Len(extra_index_url) + 1
    /\ Len(packages) <= MaxCandidates
    /\ Len(CommandsOf("pacman")) <= 2 * Len(packages)
    /\ \A n \in 1..Len(packages) :
          Cardinality({m \in 1..Len(cmds) :
                          /\ cmds[m].prog = "pacman"
                          /\ cmds[m].pkgs = <<MingwPackage(packages[n])>>})
              <= 2 * Cardinality({k \in 1..Len(packages) : packages[k] = packages[n]})
    /\ Len(PipCommands) <= 2
    /\ Len(PipBatches) <= 1
    /\ Len(CondaBatches) <= 1
    /\ Len(done) <= Cardinality(Range(requires))

\* the most steps the directive at hand has yet to take
DirectiveSteps ==
    CASE pc = "conda_search" -> (Len(extra_index_url) - url) + 2
      [] pc = "conda_install" -> 1
      [] pc = "pacman_search" -> 2 * (Len(packages) - cand) + 4
      [] pc = "pacman_install" -> 2 * (Len(packages) - cand) + 3
      [] pc = "pip_install" -> 2
      [] pc = "pip_retry" -> 1
      [] OTHER -> 0
\* the most steps one directive takes
MaxDirectiveSteps == Len(extra_index_url) + 2 * MaxCandidates + 3
\* the most steps the call takes once the loop is over
BatchSteps ==
    CASE pc = "pip_batch" -> 2
      [] pc = "conda_batch" -> 1
      [] OTHER -> 3
\* the most steps the call has yet to take
StepsLeft ==
    IF Terminated THEN 0
    ELSE Cardinality(todo) * (MaxDirectiveSteps + 1) + DirectiveSteps + BatchSteps

\* the call can take a step: the loop takes its next turn or ends, or the
\* command the call waits for returns
CanStep ==
    \/ pc = "loop"
    \/ Waiting /\ IF pc \in {"pip_batch", "conda_batch"}
                  THEN batches # <<>> /\ ~batches[Len(batches)].returned
                  ELSE cmds # <<>> /\ ~cmds[Len(cmds)].returned

\* C23: when every command returns, a call of install_requirements ends, one
\* command at a time, after a bounded number of commands: a call that is not
\* over can always take a step, every step brings the end nearer, and the
\* commands are within bounds: for one directive at most one conda command per
\* extra index URL and one more, at most two pacman commands per candidate, at
\* most two pip / uv commands of its own; for the call at most one batched
\* pip / uv and one batched conda install.
C23_TerminatesWithinBounds ==
    /\ [](OneAtATime /\ Bounded /\ (~Terminated => CanStep))
    /\ [][StepsLeft' < StepsLeft]_vars

C23_Witness ==
    /\ pc = "done"
    /\ ~IS_CONDA /\ IS_MINGW
    /\ Len(CommandsOf("pacman")) = 2 * Len(packages)
    /\ Len(PipCommands) = 2
    /\ Len(done) = 2
    /\ Len(PipBatches) = 1

-----------------------------------------------------------------------------
(* C24 *)

\* C24: VersionInfo.stamp calls the stamping routine only for a path that is a
\* file and with the routine at hand: a path that is no file raises
\* FileNotFoundError, with the routine at hand or not; a file without the
\* routine raises RuntimeError; in both cases the routine is not called and
\* the fields of the VersionInfo are as __init__ set them.
C24_StampChecksFileFirst ==
    call.returned =>
        /\ ~call.path.is_file => call.raised = Some("FileNotFoundError")
        /\ (call.path.is_file /\ call.version_stamp = None) =>
              call.raised = Some("RuntimeError")
        /\ call.raised # None =>
              /\ call.stamped = <<>>
              /\ call.self = Some(VersionInfo(call.version, call.dll, call.verbose))
        /\ call.stamped # <<>> =>
              /\ call.path.is_file
              /\ call.version_stamp # None
              /\ call.raised = None
              /\ call.stamped = <<[path |-> call.path.name, info |-> call.self[1]]>>

C24_Witness ==
    /\ call.returned
    /\ ~call.path.is_file
    /\ call.version_stamp = None
    /\ call.raised = Some("FileNotFoundError")
    /\ call.stamped = <<>>
    /\ call.version = <<"1", ".", "2">>
    /\ call.self[1].version = <<"1", ".", "2", ".", "0", ".", "0">>

====
